---- MODULE Spec2Model ----
(***************************************************************************)
(* Model of the stock price service in src/app.py: the two Flask request   *)
(* handlers get_current_value and get_forecast, the helpers they call      *)
(* (fetch_stock_data, resample_monthly, fit_sarimax, forecast), and the    *)
(* process signal handling (shutdown_handler and its registration).        *)
(*                                                                         *)
(* Text (log messages, error bodies, provider symbols) is a sequence of    *)
(* string tokens, so that an f-string is the concatenation of its parts.   *)
(* A calendar date is <<year, month, day>>; a formatted date ("%d-%m-%Y")  *)
(* is <<day, month, year>>.  A price series is a sequence of records       *)
(* [date, v] in ascending date order.                                      *)
(***************************************************************************)
EXTENDS Integers, Sequences, FiniteSets, TLC

VARIABLES
    runMode,          \* "main" (python app.py) or "imported" (loaded by a server)
    procState,        \* "running" | "in_handler" | "exited"
    hpc,              \* position inside shutdown_handler: "none" | "flush" | "exit"
    sigReceived,      \* the signal delivered to the process, 0 if none
    flushed,          \* utils.logging.flush() has been called
    exitCode,         \* exit status of the process, -1 while it runs
    handled,          \* number of requests dispatched so far
    pc,               \* position of the current request in its handler
    endpoint,         \* "current-value" | "forecast" | "none"
    ticker,           \* the <ticker> path parameter
    df,               \* result of fetch_stock_data (Option of a price series)
    current_price,    \* df.iloc[-1]
    monthly_data,     \* resample_monthly(df)
    model,            \* result of fit_sarimax (Option)
    future_forecast,  \* result of forecast (Option of a sequence of values)
    response,         \* [status, body] returned to the client
    log,              \* log entries emitted since the current request began
    calls,            \* provider calls (stock.history) made by the current request
    provided,         \* what the provider answered to the current request
    invoked           \* helper functions entered by the current request

vars == <<runMode, procState, hpc, sigReceived, flushed, exitCode, handled, pc,
          endpoint, ticker, df, current_price, monthly_data, model,
          future_forecast, response, log, calls, provided, invoked>>

procVars == <<runMode, procState, hpc, sigReceived, flushed, exitCode>>
reqVars  == <<handled, pc, endpoint, ticker, df, current_price, monthly_data,
              model, future_forecast, response, calls, provided, invoked>>

-----------------------------------------------------------------------------
(* Bounds *)

MaxRequests == 2      \* requests dispatched in one run of the process
MaxDays     == 3      \* rows in a provider response

(* Inputs *)

Tickers == {"HBL", "XYZ"}
Prices  == {100, 105}

\* Trading days the provider may return rows for: two in one month, a month
\* end, a year boundary, a skipped month and a leap-year February.
TradingDays == << <<2023, 10, 31>>, <<2023, 12, 28>>, <<2023, 12, 29>>,
                  <<2024, 1, 31>>, <<2024, 2, 28>>, <<2024, 2, 29>> >>

\* Point forecasts the fitted model may produce start from one of these.
ForecastBases == {200, 300}

(* Signal numbers, signal module *)
SIGINT  == 2
SIGTERM == 15
Signals == {SIGINT, SIGTERM}

NaN == -1             \* pandas missing value; prices are positive

None == [some |-> FALSE]
Some(x) == [some |-> TRUE, val |-> x]

NoResponse == [status |-> 0, body |-> [empty |-> TRUE]]

NoOutcome == [raised |-> FALSE, frame |-> <<>>]

-----------------------------------------------------------------------------
(* Calendar *)

IsLeap(y) == (y % 4 = 0 /\ y % 100 # 0) \/ y % 400 = 0

DaysInMonth(y, m) ==
    IF m = 2 THEN (IF IsLeap(y) THEN 29 ELSE 28)
    ELSE IF m \in {4, 6, 9, 11} THEN 30 ELSE 31

\* Months counted from year 0, so that consecutive months differ by one.
MonthIndex(d) == d[1] * 12 + (d[2] - 1)

\* The month-end timestamp that labels a month ("M" frequency).
MonthEnd(mi) ==
    LET y == mi \div 12
        m == (mi % 12) + 1
    IN <<y, m, DaysInMonth(y, m)>>

\* date.strftime("%d-%m-%Y")
Strftime(d) == <<d[3], d[2], d[1]>>

DateLess(a, b) ==
    \/ a[1] < b[1]
    \/ a[1] = b[1] /\ a[2] < b[2]
    \/ a[1] = b[1] /\ a[2] = b[2] /\ a[3] < b[3]

Last(s) == s[Len(s)]

Min(a, b) == IF a < b THEN a ELSE b

SetMax(S) == CHOOSE x \in S : \A y \in S : y <= x

\* Provider responses with rows: ascending by date, one row per trading day.
DailySeriesSet ==
    { s \in UNION { [1..n -> [date : {TradingDays[i] : i \in DOMAIN TradingDays},
                               v : Prices]] : n \in 1..MaxDays } :
        \A i \in 1..(Len(s) - 1) : DateLess(s[i].date, s[i + 1].date) }

-----------------------------------------------------------------------------
(* Helpers of src/app.py *)

\* f"{ticker}.KA"
Symbol(t) == <<t, ".KA">>

\* fetch_stock_data(ticker): one stock.history call whose outcome is the
\* provider's: it raises, or it returns a frame (possibly without rows).
\* Returns the function's result and the log entries it emits.
fetch_stock_data(symbol, outcome) ==
    IF outcome.raised
    THEN [result |-> None,
          logs   |-> << [level |-> "error",
                         msg   |-> <<"Error fetching stock data for ">> \o symbol
                                   \o <<": ", "provider error">>] >>]
    ELSE IF outcome.frame = <<>>
         THEN [result |-> None, logs |-> <<>>]
         ELSE [result |-> Some(outcome.frame), logs |-> <<>>]

\* GroupBy.last(): the last non-missing value of the group, missing if none.
LastValid(group) ==
    LET idx == {i \in DOMAIN group : group[i].v # NaN}
    IN IF idx = {} THEN NaN ELSE group[SetMax(idx)].v

\* Mutation: bins labelled with the month end after the bin's month.
ResampleShiftedLabel(data) ==
    IF data = <<>> THEN <<>>
    ELSE LET lo == MonthIndex(data[1].date)
             hi == MonthIndex(Last(data).date)
         IN [k \in 1..(hi - lo + 1) |->
                LET InBin(e) == MonthIndex(e.date) = lo + k - 1
                IN [date |-> MonthEnd(lo + k),
                    v    |-> LastValid(SelectSeq(data, InBin))]]

\* data.resample("M").last(): one bin per calendar month from the month of the
\* first entry to the month of the last, labelled with the month end.
resample_monthly(data) ==
    IF data = <<>> THEN <<>>
    ELSE LET lo == MonthIndex(data[1].date)
             hi == MonthIndex(Last(data).date)
         IN [k \in 1..(hi - lo + 1) |->
                LET InBin(e) == MonthIndex(e.date) = lo + k - 1
                IN [date |-> MonthEnd(lo + k - 1),
                    v    |-> LastValid(SelectSeq(data, InBin))]]

\* Mutation: iloc[0] in place of iloc[-1].
FirstPrice(series) == series[1].v

\* df.iloc[-1]
LastPrice(series) == series[Len(series)].v

\* forecast_steps = 6
forecast_steps == 6

\* model.forecast(steps=steps): that many point predictions, in order.
ModelForecast(base, steps) == [i \in 1..steps |-> base + i]

\* pd.date_range(start, periods=periods, freq="M"): month ends, the first one
\* being the end of start's own month (start itself when it is a month end).
date_range(start, periods) ==
    [i \in 1..periods |-> MonthEnd(MonthIndex(start) + i - 1)]

\* Mutation: the range is asked for forecast_steps periods, not one more.
FutureDatesShort(monthly, steps) ==
    Tail(date_range(Last(monthly).date, steps))

\* Mutation: the first element of the range is not dropped.
FutureDatesKeepStart(monthly, steps) ==
    date_range(Last(monthly).date, steps)

\* pd.date_range(monthly_data.index[-1], periods=forecast_steps + 1, freq="M")[1:]
future_dates(monthly, steps) ==
    Tail(date_range(Last(monthly).date, steps + 1))

\* zip(future_dates, future_forecast) into {"Date", "Forecast"} records
forecast_data(dates, values) ==
    [i \in 1..Min(Len(dates), Len(values)) |->
        [Date |-> Strftime(dates[i]), Forecast |-> values[i]]]

\* Mutation: the values column built from forecast_data[1:].
FlatValuesSkipFirst(fdata) == [i \in DOMAIN Tail(fdata) |-> Tail(fdata)[i].Forecast]

\* [d["Date"] for d in forecast_data]
FlatDates(fdata) == [i \in DOMAIN fdata |-> fdata[i].Date]

\* [d["Forecast"] for d in forecast_data]
FlatValues(fdata) == [i \in DOMAIN fdata |-> fdata[i].Forecast]

\* [date.strftime("%d-%m-%Y") for date in monthly_data.index]
historical_dates(monthly) == [i \in DOMAIN monthly |-> Strftime(monthly[i].date)]

\* monthly_data.tolist()
historical_values(monthly) == [i \in DOMAIN monthly |-> monthly[i].v]

\* Mutation: the provider symbol in the message.
InvalidTickerWithSuffix(t) ==
    [status |-> 400, body |-> [error |-> <<"Invalid ticker symbol: ">> \o Symbol(t)]]

\* jsonify({"error": f"Invalid ticker symbol: {ticker}"}), 400
InvalidTicker(t) ==
    [status |-> 400, body |-> [error |-> <<"Invalid ticker symbol: ", t>>]]

\* Mutation: the fit failure reported with the forecast failure's message.
FitFailedWrongMessage ==
    [status |-> 500, body |-> [error |-> <<"Failed to generate forecast">>]]

\* jsonify({"error": "Failed to fit forecasting model"}), 500
FitFailed ==
    [status |-> 500, body |-> [error |-> <<"Failed to fit forecasting model">>]]

\* jsonify({"error": "Failed to generate forecast"}), 500
ForecastFailed ==
    [status |-> 500, body |-> [error |-> <<"Failed to generate forecast">>]]

\* jsonify({"error": str(e)}), 500
Unexpected(errText) ==
    [status |-> 500, body |-> [error |-> <<errText>>]]

\* Mutation: main registers SIGTERM, an importing server SIGINT.
RegisteredSwapped(mode) == IF mode = "main" THEN {SIGTERM} ELSE {SIGINT}

\* The signals shutdown_handler is installed for (module level if/else).
Registered(mode) == IF mode = "main" THEN {SIGINT} ELSE {SIGTERM}

\* Mutation: the provider is asked again after the first answer.
HistoryCallsRetried(n) == n + 2

\* Provider calls made once fetch_stock_data has run: stock.history, once.
HistoryCalls(n) == n + 1

\* What stock.history may do: raise, or return a frame with or without rows.
ProviderOutcomes ==
    {[raised |-> TRUE, frame |-> <<>>]}
    \cup {[raised |-> FALSE, frame |-> f] : f \in DailySeriesSet \cup {<<>>}}

-----------------------------------------------------------------------------
(* State machine *)

Init ==
    /\ runMode \in {"main", "imported"}
    /\ procState = "running"
    /\ hpc = "none"
    /\ sigReceived = 0
    /\ flushed = FALSE
    /\ exitCode = -1
    /\ handled = 0
    /\ pc = "idle"
    /\ endpoint = "none"
    /\ ticker = ""
    /\ df = None
    /\ current_price = NaN
    /\ monthly_data = <<>>
    /\ model = None
    /\ future_forecast = None
    /\ response = NoResponse
    /\ log = <<>>
    /\ calls = 0
    /\ provided = NoOutcome
    /\ invoked = {}

\* Flask dispatches a request to one of the two routes; the handler's first
\* statement is its logger.info call.
Receive(ep, t) ==
    /\ procState = "running"
    /\ pc \in {"idle", "done"}
    /\ handled < MaxRequests
    /\ handled' = handled + 1
    /\ endpoint' = ep
    /\ ticker' = t
    /\ df' = None
    /\ current_price' = NaN
    /\ monthly_data' = <<>>
    /\ model' = None
    /\ future_forecast' = None
    /\ response' = NoResponse
    /\ calls' = 0
    /\ provided' = NoOutcome
    /\ invoked' = {}
    /\ log' = << [level |-> "info",
                  msg   |-> IF ep = "current-value"
                            THEN <<"Fetching current value for ticker: ", t>>
                            ELSE <<"Generating forecast for ticker: ", t>>] >>
    /\ pc' = "fetch"
    /\ UNCHANGED procVars

\* df = fetch_stock_data(f"{ticker}.KA"), in either handler.
Fetch ==
    /\ procState = "running"
    /\ pc = "fetch"
    /\ \E outcome \in ProviderOutcomes :
         LET r == fetch_stock_data(Symbol(ticker), outcome)
         IN /\ provided' = outcome
            /\ df' = r.result
            /\ log' = log \o r.logs
    /\ calls' = HistoryCalls(calls)
    /\ invoked' = invoked \cup {"fetch_stock_data"}
    /\ pc' = "fetched"
    /\ UNCHANGED <<procVars, handled, endpoint, ticker, current_price,
                   monthly_data, model, future_forecast, response>>

\* get_current_value after the fetch: df.iloc[-1] raises on None, and the
\* except clause logs and answers 400.
CurrentValueReturn ==
    /\ procState = "running"
    /\ pc = "fetched"
    /\ endpoint = "current-value"
    /\ IF df.some
       THEN /\ current_price' = LastPrice(df.val)
            /\ response' = [status |-> 200,
                            body   |-> [currentPrice |-> LastPrice(df.val)]]
            /\ log' = log
       ELSE /\ current_price' = current_price
            /\ response' = InvalidTicker(ticker)
            /\ log' = Append(log,
                   [level |-> "error",
                    msg   |-> <<"Error fetching current value for ", ticker, ": ",
                                "'NoneType' object has no attribute 'iloc'">>])
    /\ pc' = "done"
    /\ UNCHANGED <<procVars, handled, endpoint, ticker, df, monthly_data, model,
                   future_forecast, calls, provided, invoked>>

\* get_forecast after the fetch: the None check, the current price and the
\* resampling.  A library call that raises lands in the except clause.
ForecastPrepare ==
    /\ procState = "running"
    /\ pc = "fetched"
    /\ endpoint = "forecast"
    /\ IF ~df.some
       THEN /\ response' = InvalidTicker(ticker)
            /\ pc' = "done"
            /\ UNCHANGED <<current_price, monthly_data, log, invoked>>
       ELSE \E raises \in BOOLEAN :
              /\ invoked' = invoked \cup {"resample_monthly"}
              /\ IF raises
                 THEN /\ log' = Append(log,
                             [level |-> "error",
                              msg   |-> <<"Error in forecast for ", ticker, ": ",
                                          "library error">>])
                      /\ response' = Unexpected("library error")
                      /\ pc' = "done"
                      /\ UNCHANGED <<current_price, monthly_data>>
                 ELSE /\ current_price' = LastPrice(df.val)
                      /\ monthly_data' = resample_monthly(df.val)
                      /\ pc' = "fit"
                      /\ UNCHANGED <<log, response>>
    /\ UNCHANGED <<procVars, handled, endpoint, ticker, df, model,
                   future_forecast, calls, provided>>

\* model = fit_sarimax(monthly_data) and the handler's check of its result.
Fit ==
    /\ procState = "running"
    /\ pc = "fit"
    /\ invoked' = invoked \cup {"fit_sarimax"}
    /\ \E ok \in BOOLEAN :
         IF ok
         THEN /\ model' = Some("SARIMAXResults")
              /\ pc' = "forecast"
              /\ UNCHANGED <<log, response>>
         ELSE /\ model' = None
              /\ log' = Append(log,
                     [level |-> "error",
                      msg   |-> <<"Error fitting SARIMAX model: ", "fit error">>])
              /\ response' = FitFailed
              /\ pc' = "done"
    /\ UNCHANGED <<procVars, handled, endpoint, ticker, df, current_price,
                   monthly_data, future_forecast, calls, provided>>

\* future_forecast = forecast(model, forecast_steps) and the check of its result.
Forecast ==
    /\ procState = "running"
    /\ pc = "forecast"
    /\ invoked' = invoked \cup {"forecast"}
    /\ \/ \E base \in ForecastBases :
            /\ future_forecast' = Some(ModelForecast(base, forecast_steps))
            /\ pc' = "build"
            /\ UNCHANGED <<log, response>>
       \/ /\ future_forecast' = None
          /\ log' = Append(log,
                 [level |-> "error",
                  msg   |-> <<"Error generating forecast: ", "forecast error">>])
          /\ response' = ForecastFailed
          /\ pc' = "done"
    /\ UNCHANGED <<procVars, handled, endpoint, ticker, df, current_price,
                   monthly_data, model, calls, provided>>

\* The rest of get_forecast: future dates, forecast_data and the 200 payload.
BuildResponse ==
    /\ procState = "running"
    /\ pc = "build"
    /\ LET fdata == forecast_data(future_dates(monthly_data, forecast_steps),
                                  future_forecast.val)
       IN response' =
            [status |-> 200,
             body   |-> [currentPrice     |-> current_price,
                         forecast         |-> fdata,
                         historicalDates  |-> historical_dates(monthly_data),
                         historicalValues |-> historical_values(monthly_data),
                         forecastDates    |-> FlatDates(fdata),
                         forecastValues   |-> FlatValues(fdata)]]
    /\ pc' = "done"
    /\ UNCHANGED <<procVars, handled, endpoint, ticker, df, current_price,
                   monthly_data, model, future_forecast, log, calls, provided,
                   invoked>>

\* A termination signal reaches the process.  With shutdown_handler installed
\* for it the handler starts (its logger.info call); otherwise the default
\* disposition ends the process, and shutdown_handler never runs.
DeliverSignal(sig) ==
    /\ procState = "running"
    /\ sigReceived = 0
    /\ sigReceived' = sig
    /\ IF sig \in Registered(runMode)
       THEN /\ procState' = "in_handler"
            /\ hpc' = "flush"
            /\ log' = Append(log, [level |-> "info", msg |-> <<"Caught Signal ">>])
            /\ UNCHANGED exitCode
       ELSE /\ procState' = "exited"
            /\ exitCode' = 128 + sig
            /\ UNCHANGED <<hpc, log>>
    /\ UNCHANGED <<runMode, flushed, reqVars>>

\* shutdown_handler: flush()
HandlerFlush ==
    /\ procState = "in_handler"
    /\ hpc = "flush"
    /\ flushed' = TRUE
    /\ hpc' = "exit"
    /\ UNCHANGED <<runMode, procState, sigReceived, exitCode, reqVars, log>>

\* shutdown_handler: sys.exit(0)
HandlerExit ==
    /\ procState = "in_handler"
    /\ hpc = "exit"
    /\ procState' = "exited"
    /\ exitCode' = 0
    /\ hpc' = "none"
    /\ UNCHANGED <<runMode, sigReceived, flushed, reqVars, log>>

Next ==
    \/ \E ep \in {"current-value", "forecast"}, t \in Tickers : Receive(ep, t)
    \/ Fetch
    \/ CurrentValueReturn
    \/ ForecastPrepare
    \/ Fit
    \/ Forecast
    \/ BuildResponse
    \/ \E sig \in Signals : DeliverSignal(sig)
    \/ HandlerFlush
    \/ HandlerExit

Spec == Init /\ [][Next]_vars

-----------------------------------------------------------------------------
(* Properties *)

Answered == pc = "done"

HasRows == ~provided.raised /\ provided.frame # <<>>

Ok200Forecast == Answered /\ endpoint = "forecast" /\ response.status = 200

\* "%d-%m-%Y" read back as a calendar date
ParseDate(f) == <<f[3], f[2], f[1]>>

\* The end of the calendar month after the month of d, by the calendar.
FollowingMonthEnd(d) ==
    IF d[2] = 12 THEN <<d[1] + 1, 1, 31>>
    ELSE <<d[1], d[2] + 1, DaysInMonth(d[1], d[2] + 1)>>

NamesTicker(entry) == \E j \in DOMAIN entry.msg : entry.msg[j] = ticker

\* C1: when the provider returns no rows or raises, either endpoint answers
\* 400 with {"error": "Invalid ticker symbol: <ticker>"}, <ticker> being the
\* path parameter without the .KA suffix.
C1_InvalidTickerOnNoData ==
    (Answered /\ ~HasRows) =>
        /\ response.status = 400
        /\ response.body = [error |-> <<"Invalid ticker symbol: ", ticker>>]

C1_Witness ==
    /\ Answered
    /\ endpoint = "forecast"
    /\ provided.raised
    /\ response.status = 400
    /\ ticker = "XYZ"

\* C2: when the provider returns rows, get_current_value answers 200 with the
\* single field currentPrice, the value of the chronologically last row.
C2_CurrentPriceIsLastClose ==
    (Answered /\ endpoint = "current-value" /\ HasRows) =>
        LET frame == provided.frame
            n     == Len(frame)
        IN /\ \A i \in 1..(n - 1) : DateLess(frame[i].date, frame[n].date)
           /\ response.status = 200
           /\ response.body = [currentPrice |-> frame[n].v]

C2_Witness ==
    /\ Answered
    /\ endpoint = "current-value"
    /\ HasRows
    /\ Len(provided.frame) = 3
    /\ provided.frame[1].v = 105
    /\ provided.frame[3].v = 100
    /\ response.status = 200

\* C3: after a successful fetch in get_forecast, a failed fit answers 500
\* "Failed to fit forecasting model" without the forecast step being entered,
\* a failed forecast after a successful fit answers 500 "Failed to generate
\* forecast", and neither produces a 200 payload.
C3_FirstFailingStage ==
    /\ (Answered /\ endpoint = "forecast" /\ df.some
          /\ "fit_sarimax" \in invoked /\ ~model.some) =>
            /\ response = [status |-> 500,
                           body   |-> [error |-> <<"Failed to fit forecasting model">>]]
            /\ "forecast" \notin invoked
    /\ (Answered /\ endpoint = "forecast" /\ df.some
          /\ model.some /\ "forecast" \in invoked /\ ~future_forecast.some) =>
            response = [status |-> 500,
                        body   |-> [error |-> <<"Failed to generate forecast">>]]

C3_Witness ==
    /\ Answered
    /\ endpoint = "forecast"
    /\ df.some
    /\ invoked = {"fetch_stock_data", "resample_monthly", "fit_sarimax"}
    /\ ~model.some
    /\ response.status = 500

\* C4: every path of either handler that ends in a 400 or 500 response has
\* emitted an error log entry naming the request's ticker.
C4_FailuresLoggedWithTicker ==
    (Answered /\ response.status \in {400, 500}) =>
        \E i \in DOMAIN log : log[i].level = "error" /\ NamesTicker(log[i])

\* C5: whichever way the process was started, SIGINT and SIGTERM both run
\* shutdown_handler, which flushes the logs and then exits with status 0.
C5_AnySignalFlushesThenExits ==
    sigReceived # 0 =>
        /\ procState = "in_handler" \/ flushed
        /\ procState = "exited" => (flushed /\ exitCode = 0)

\* C5 (amended): SIGINT when run as the main script, and SIGTERM when imported,
\* run shutdown_handler, which flushes the logs and only then exits with
\* status 0.
C5_RegisteredSignalFlushesThenExits ==
    (\/ runMode = "main" /\ sigReceived = SIGINT
     \/ runMode = "imported" /\ sigReceived = SIGTERM) =>
        /\ procState = "in_handler" \/ flushed
        /\ \E i \in DOMAIN log : log[i].msg = <<"Caught Signal ">>
        /\ procState = "exited" => (flushed /\ exitCode = 0)
        /\ ~flushed => exitCode = -1

C5_Witness ==
    /\ runMode = "imported"
    /\ sigReceived = SIGTERM
    /\ procState = "exited"
    /\ flushed
    /\ exitCode = 0

\* C6: a 200 response of get_forecast carries exactly 6 forecast entries, 6
\* forecastDates and 6 forecastValues, whatever the length of the history.
C6_SixForecastEntries ==
    Ok200Forecast =>
        /\ Len(response.body.forecast) = 6
        /\ Len(response.body.forecastDates) = 6
        /\ Len(response.body.forecastValues) = 6

C6_Witness ==
    /\ Ok200Forecast
    /\ Len(response.body.historicalDates) = 1
    /\ Len(response.body.forecast) = 6

\* C7: in a 200 response of get_forecast, forecastDates is strictly
\* increasing, starts at the month end following the last historical date, and
\* each later date is the month end of the next calendar month.
C7_ForecastDatesFollowHistory ==
    Ok200Forecast =>
        LET fd == response.body.forecastDates
            hd == response.body.historicalDates
        IN /\ fd # <<>>
           /\ ParseDate(fd[1]) = FollowingMonthEnd(ParseDate(Last(hd)))
           /\ \A i \in 1..(Len(fd) - 1) :
                /\ DateLess(ParseDate(fd[i]), ParseDate(fd[i + 1]))
                /\ ParseDate(fd[i + 1]) = FollowingMonthEnd(ParseDate(fd[i]))

C7_Witness ==
    /\ Ok200Forecast
    /\ Last(response.body.historicalDates) = <<31, 12, 2023>>
    /\ response.body.forecastDates[1] = <<31, 1, 2024>>
    /\ response.body.forecastDates[2] = <<29, 2, 2024>>
    /\ response.body.forecastDates[6] = <<30, 6, 2024>>

\* C8: in a 200 response of get_forecast the flat arrays repeat the forecast
\* array position by position, and all three have the same length.
C8_FlatArraysMatchForecast ==
    Ok200Forecast =>
        LET b == response.body
        IN /\ Len(b.forecastDates) = Len(b.forecast)
           /\ Len(b.forecastValues) = Len(b.forecast)
           /\ \A i \in 1..Len(b.forecast) :
                /\ b.forecastDates[i] = b.forecast[i].Date
                /\ b.forecastValues[i] = b.forecast[i].Forecast

C8_Witness ==
    /\ Ok200Forecast
    /\ response.body.forecast[1] = [Date |-> <<30, 11, 2023>>, Forecast |-> 301]
    /\ response.body.forecastValues[6] = 306

\* C9: resample_monthly keeps, for each calendar month, the value of the last
\* entry of that month, and applying it to its own result changes nothing.
C9_ResampleIdempotent ==
    (pc \in {"fit", "forecast", "build"} \/ (Answered /\ "fit_sarimax" \in invoked)) =>
        /\ resample_monthly(monthly_data) = monthly_data
        /\ \A i \in DOMAIN df.val :
             (i = Len(df.val) \/ MonthIndex(df.val[i + 1].date) # MonthIndex(df.val[i].date))
                => \E k \in DOMAIN monthly_data :
                      /\ MonthIndex(monthly_data[k].date) = MonthIndex(df.val[i].date)
                      /\ monthly_data[k].v = df.val[i].v
        /\ \A k \in 1..(Len(monthly_data) - 1) :
             MonthIndex(monthly_data[k + 1].date) = MonthIndex(monthly_data[k].date) + 1

C9_Witness ==
    /\ pc = "fit"
    /\ Len(df.val) = 3
    /\ df.val[1].date = <<2023, 10, 31>>
    /\ df.val[2].date = <<2023, 12, 28>>
    /\ df.val[3].date = <<2023, 12, 29>>
    /\ df.val[2].v # df.val[3].v
    /\ Len(monthly_data) = 3
    /\ monthly_data[2].v = NaN

\* C10: every handled request makes exactly one call to the provider: never a
\* second one, and no response without one.
C10_OneProviderCall ==
    /\ calls <= 1
    /\ Answered => calls = 1

C10_Witness ==
    /\ Answered
    /\ endpoint = "forecast"
    /\ response = ForecastFailed
    /\ calls = 1
    /\ handled = 2

====
